---- MODULE Spec2Model ----
(***************************************************************************)
(* State-machine model of src/main.py, class UpbitMomentumStrategy: the    *)
(* tick loop run(), the stop-loss check, the ledger reconciliation, the    *)
(* rebalance execute_trades() and the liquidation sell_all_positions().    *)
(*                                                                         *)
(* The exchange account, the market-cap provider, the price history and    *)
(* the ledger file are the environment: every query result and every      *)
(* order outcome is drawn from a small set.  Time is counted in days.      *)
(* A holding is `balance` units bought at `avg_buy_price` per unit.        *)
(***************************************************************************)
EXTENDS Integers, Sequences, FiniteSets, TLC

\* ------------------------------------------------------------------ bounds
\* the clock stops advancing at MaxNow days
MaxNow == 14
\* consecutive_holds counters are explored up to MaxCount
MaxCount == 3
\* at most this many orders of one phase are rejected by the exchange
MaxFailures == 1

\* ------------------------------------------------- configuration (config.json)
\* config['trading']['manual_holdings']
manual_holdings == {"M"}
\* config['trading']['exclude_coins']
base_exclude_coins == {}
\* self.exclude_coins = base_exclude_coins + self.manual_holdings
exclude_coins == base_exclude_coins \cup manual_holdings
\* config['trading'].get('max_slots', 3): the values explored
MaxSlotsChoices == {1, 3, 4}
\* config['trading'].get('rebalancing_interval', 10080), minutes
rebalancing_interval == 10080

\* the floor of a tracked holding (lines 176, 301, 331, 404, 444)
min_holding_value == 10000
\* the exchange's minimum order (line 368) and the order increment (line 367)
min_order_amount == 5000
order_increment == 1000
\* the stop-loss threshold run() passes (line 450), percent
loss_threshold == 0 - 20
\* should_keep_coin: days (line 255) and consecutive holds (line 259)
max_holding_days == 14
max_consecutive_holds == 3
\* get_top20_market_cap / get_top3_momentum: list lengths (lines 138, 242)
top_n == 20
top_k == 3
\* calculate_7day_returns: samples needed (line 225)
min_samples == 7

\* ------------------------------------------------------------ the exchange
\* pyupbit.get_tickers(fiat="KRW"), already split to symbols, in listing order
ListedSymbols == <<"A", "B", "C", "M">>
\* the rows upbit.get_balances() returns, in order
BalanceRows == <<"KRW", "A", "B", "C", "M">>
Currencies == {BalanceRows[i] : i \in 1..Len(BalanceRows)}
Coins == Currencies \ {"KRW"}
\* balance['avg_buy_price']: 0 for the KRW row, the unit cost of a coin otherwise
avg_buy_price(c) == IF c = "KRW" THEN 0 ELSE 1000
\* balance['balance'] of a coin: nothing, 5 units (5,000: below the floor) or
\* 10 units (10,000: at the floor); larger holdings behave as 10 units
UnitChoices == {0, 5, 10}
\* what the owner leaves in a coin when trading it by hand
DepositChoices == {0, 10}
\* upbit.get_balance("KRW") as execute_trades reads it
CashChoices == {4000, 5000, 60000}
\* pyupbit.get_current_price(ticker): NoPrice is None
NoPrice == 0 - 1
PriceChoices == {NoPrice, 800, 850}
\* days that pass between two ticks that do something: none (the next tick,
\* line 489), or two weeks of ticks that all ended at lines 491-493
SleepDays == {0, 14}

\* upbit.get_balances(): it answers (TRUE) or raises (FALSE)
QueryOutcomes == BOOLEAN
\* get_balances() inside sync_holdings_with_current_state (line 298): it
\* answers; the reads of lines 167, 328, 401 and 441 may also raise
SyncOutcomes == {TRUE}
\* the orders of a phase that the exchange rejects
Rejected(orders) == {f \in SUBSET orders : Cardinality(f) <= MaxFailures}
\* the write of holdings_data.json (lines 287-288): it succeeds
WriteOutcomes == {TRUE}

\* f"KRW-{currency}" and ticker.split('-')[1]
Ticker(c) == <<"KRW", c>>
Symbol(t) == t[2]
Tickers == {Ticker(c) : c \in Currencies}

\* a dictionary key that is absent / a value that is None
NoEntry == 0 - 1

Range(s) == {s[i] : i \in 1..Len(s)}
Min(a, b) == IF a <= b THEN a ELSE b

VARIABLES
  max_slots,             \* self.max_slots
  balances,              \* the exchange account: currency -> balance
  holding_periods,       \* self.holding_periods: ticker -> day acquired | NoEntry
  consecutive_holds,     \* self.consecutive_holds: ticker -> count | NoEntry
  last_purchase_time,    \* self.last_purchase_time: day | NoEntry
  holdings_file,         \* holdings_data.json
  is_trading_suspended,  \* run(): is_trading_suspended
  now,                   \* datetime.now(), in days
  pc,                    \* where run() is within the tick
  btc_above_ma,          \* run(): btc_above_ma of this tick
  holding_count,         \* run(): holding_count of this tick
  sold_coins,            \* run(): sold_coins of this tick
  first_tick,            \* TRUE until the first tick since process start has ended
  was_suspended,         \* is_trading_suspended when this tick began
  emitted,               \* what the decider did in this tick
  trade,                 \* orders placed and facts read in this tick
  call                   \* a single call of one method: its arguments and result

vars == <<max_slots, balances, holding_periods, consecutive_holds,
          last_purchase_time, holdings_file, is_trading_suspended, now, pc,
          btc_above_ma, holding_count, sold_coins, first_tick, was_suspended,
          emitted, trade, call>>

\* ------------------------------------------------------ account snapshot
\* the filter of lines 299-301 / 329-331 / 402-404 / 442-444
IsQualifying(bal, c) ==
  /\ bal[c] > 0
  /\ c \notin manual_holdings
  /\ bal[c] * avg_buy_price(c) >= min_holding_value

\* current_holdings: the qualifying currencies in row order
CurrentHoldings(bal) == SelectSeq(BalanceRows, LAMBDA c : IsQualifying(bal, c))

\* ------------------------------------------------------------ the ledger
Get(d, k) == IF d[k] = NoEntry THEN 0 ELSE d[k]
Keys(d) == {k \in DOMAIN d : d[k] # NoEntry}
EmptyDict == [t \in Tickers |-> NoEntry]
Ledger(hp, ch) == [holding_periods |-> hp, consecutive_holds |-> ch]

\* save_holdings_data: the file takes the in-memory ledger unless the write fails
SaveHoldingsData(file, hp, ch, write_ok) ==
  IF write_ok THEN Ledger(hp, ch) ELSE file

\* sync_holdings_with_current_state, lines 296-315, on a successful query
SyncHoldingPeriods(hp, bal, t_now) ==
  LET current == {Ticker(c) : c \in Range(CurrentHoldings(bal))}
      recorded == Keys(hp)
  IN [t \in Tickers |->
        IF t \in recorded \ current THEN NoEntry
        ELSE IF t \in current \ recorded THEN t_now
        ELSE hp[t]]

\* a reconciliation that counts every holding it finds, new or not
SyncConsecutiveHoldsEveryTime(hp, ch, bal) ==
  LET current == {Ticker(c) : c \in Range(CurrentHoldings(bal))}
      recorded == Keys(hp)
  IN [t \in Tickers |->
        IF t \in recorded \ current THEN 0
        ELSE IF t \in current THEN Get(ch, t) + 1
        ELSE ch[t]]

SyncConsecutiveHolds(hp, ch, bal) ==
  LET current == {Ticker(c) : c \in Range(CurrentHoldings(bal))}
      recorded == Keys(hp)
  IN [t \in Tickers |->
        IF t \in recorded \ current THEN 0
        ELSE IF t \in current \ recorded THEN Get(ch, t) + 1
        ELSE ch[t]]

\* the ledger after sync_holdings_with_current_state; query_ok = FALSE is
\* get_balances() raising (line 319: nothing changes, nothing is saved)
SyncLedger(led, file, bal, t_now, query_ok, write_ok) ==
  IF ~query_ok THEN [mem |-> led, file |-> file]
  ELSE LET hp == SyncHoldingPeriods(led.holding_periods, bal, t_now)
           ch == SyncConsecutiveHolds(led.holding_periods, led.consecutive_holds, bal)
       IN [mem |-> Ledger(hp, ch), file |-> SaveHoldingsData(file, hp, ch, write_ok)]

\* ------------------------------------------------------- universe, momentum
\* sorted(items, key=lambda x: x[1], reverse=True) of the first n items, each
\* a tuple <<name, key>>: stable, equal keys keep their input order
\* a sort that puts the later of two equal keys first
RECURSIVE SortedDescTiesReversed(_, _)
SortedDescTiesReversed(items, n) ==
  IF n = 0 THEN <<>>
  ELSE LET done == SortedDescTiesReversed(items, n - 1)
           x == items[n]
           k == Cardinality({i \in 1..Len(done) : done[i][2] > x[2]})
       IN SubSeq(done, 1, k) \o <<x>> \o SubSeq(done, k + 1, Len(done))

RECURSIVE SortedDesc(_, _)
SortedDesc(items, n) ==
  IF n = 0 THEN <<>>
  ELSE LET done == SortedDesc(items, n - 1)
           x == items[n]
           k == Cardinality({i \in 1..Len(done) : done[i][2] >= x[2]})
       IN SubSeq(done, 1, k) \o <<x>> \o SubSeq(done, k + 1, Len(done))

Head_n(seq, n) == SubSeq(seq, 1, Min(n, Len(seq)))

\* a ranking that forgets the exclusion list
GetTop20MarketCapNoExclusion(api_ok, caps) ==
  LET symbols == SelectSeq(ListedSymbols, LAMBDA s : caps[s] # 0)
      market_caps == [i \in 1..Len(symbols) |-> <<Ticker(symbols[i]), caps[symbols[i]]>>]
      sorted_market_caps == SortedDesc(market_caps, Len(market_caps))
      top_20 == Head_n(sorted_market_caps, top_n)
  IN IF ~api_ok \/ market_caps = <<>> THEN <<>>
     ELSE [i \in 1..Len(top_20) |-> top_20[i][1]]

\* get_top20_market_cap, lines 99-154.  caps[s] is coin_data['market_cap'] of
\* symbol s, 0 when the symbol is not in the provider's map or its cap is None/0;
\* api_ok = FALSE is the provider answering with a status other than 200.
\* The result <<>> is the except branch (lines 151-154).
GetTop20MarketCap(api_ok, caps) ==
  LET symbols == SelectSeq(ListedSymbols,
                   LAMBDA s : s \notin exclude_coins /\ caps[s] # 0)
      market_caps == [i \in 1..Len(symbols) |-> <<Ticker(symbols[i]), caps[symbols[i]]>>]
      sorted_market_caps == SortedDesc(market_caps, Len(market_caps))
      top_20 == Head_n(sorted_market_caps, top_n)
  IN IF ~api_ok \/ market_caps = <<>> THEN <<>>
     ELSE [i \in 1..Len(top_20) |-> top_20[i][1]]

\* lines 151-154 taken: the ranking failed
RankingFailed(api_ok, caps) ==
  ~api_ok \/ \A i \in 1..Len(ListedSymbols) :
               ListedSymbols[i] \in exclude_coins \/ caps[ListedSymbols[i]] = 0

\* df['close'] of get_ohlcv(ticker, "day", 8): <<>> is df = None
NoHistory == <<>>
ShortHistory == <<100, 100, 100, 100, 100, 120>>
FlatHistory == <<100, 100, 100, 100, 100, 100, 100, 100>>
UpHistory == <<100, 90, 100, 100, 100, 100, 100, 110>>
WeekHistory == <<100, 100, 100, 100, 100, 100, 105>>
DownHistory == <<100, 100, 100, 100, 100, 100, 100, 95>>

\* line 226: (close.iloc[-1] - close.iloc[-7]) / close.iloc[-7] * 100, in whole
\* percent; no two histories above differ by less than one percent
SevenDayReturn(df) ==
  ((df[Len(df)] - df[Len(df) - 6]) * 100) \div df[Len(df) - 6]

\* calculate_7day_returns + get_top3_momentum, lines 217-242
GetTop3Momentum(top20, hist) ==
  LET with_returns == SelectSeq(top20,
                        LAMBDA t : Len(hist[Symbol(t)]) >= min_samples)
      returns == [i \in 1..Len(with_returns) |->
                    <<with_returns[i], SevenDayReturn(hist[Symbol(with_returns[i])])>>]
      sorted_returns == SortedDesc(returns, Len(returns))
      top_3 == Head_n(sorted_returns, top_k)
  IN [i \in 1..Len(top_3) |-> top_3[i][1]]

\* the market as one call of get_top3_momentum finds it: the provider's answer,
\* the market caps and the price histories.  M, the manual holding, always has
\* the largest cap and the best return.
AllListed == [s \in Range(ListedSymbols) |-> IF s = "M" THEN 2 ELSE 1]
NoneListed == [s \in Range(ListedSymbols) |-> 0]
History(a, b, c) ==
  [s \in Range(ListedSymbols) |->
     IF s = "A" THEN a ELSE IF s = "B" THEN b ELSE IF s = "C" THEN c ELSE UpHistory]
Market(api_ok, caps, hist) == [api_ok |-> api_ok, caps |-> caps, hist |-> hist]
MarketChoices ==
  {Market(FALSE, AllListed, History(FlatHistory, FlatHistory, FlatHistory)),
   Market(TRUE, NoneListed, History(FlatHistory, FlatHistory, FlatHistory)),
   Market(TRUE, AllListed, History(NoHistory, ShortHistory, NoHistory)),
   Market(TRUE, AllListed, History(FlatHistory, FlatHistory, FlatHistory)),
   Market(TRUE, AllListed, History(FlatHistory, FlatHistory, UpHistory)),
   Market(TRUE, AllListed, History(FlatHistory, UpHistory, ShortHistory)),
   Market(TRUE, AllListed, History(NoHistory, FlatHistory, ShortHistory))}

\* get_top3_momentum, lines 235-242, in market m
TargetCoins(m) == GetTop3Momentum(GetTop20MarketCap(m.api_ok, m.caps), m.hist)

\* no method has been called on its own
NoCall == [op |-> "none"]

\* ------------------------------------------------------------ the tick's log
\* what the tick has done so far: the orders placed (by the stop-loss check,
\* the liquidation or the rebalance) and what execute_trades saw
NoTrade ==
  [check_ran |-> FALSE,       \* check_loss_threshold was called
   sells |-> {},              \* sell_market_order calls: [ticker, by, ok]
   buys |-> {},               \* buy_market_order calls: [ticker, amount, ok]
   liquidation_read |-> FALSE,\* sell_all_positions got the account snapshot
   executed |-> FALSE,        \* execute_trades got the account snapshot
   ranking_failed |-> FALSE,  \* get_top20_market_cap took its except branch
   target_coins |-> <<>>,     \* what get_top3_momentum returned
   held_before |-> {},        \* current_holdings at line 332
   held_after_sells |-> 0]    \* len(current_holdings) at line 363

SellOrders(by, attempted, sold) ==
  {[ticker |-> Ticker(c), by |-> by, ok |-> c \in sold] : c \in attempted}

\* the account after the exchange has executed the sells of `sold`
AfterSells(bal, sold) == [c \in Currencies |-> IF c \in sold THEN 0 ELSE bal[c]]

\* lines 351-353 / 415-417 for every sold coin
ForgetPeriods(hp, sold) ==
  [t \in Tickers |-> IF Symbol(t) \in sold THEN NoEntry ELSE hp[t]]
\* a sale that leaves the count of the sold coin as it was
ResetHoldsKept(ch, sold) == ch

ResetHolds(ch, sold) ==
  [t \in Tickers |-> IF Symbol(t) \in sold THEN 0 ELSE ch[t]]

\* ------------------------------------------------------- stop-loss check
\* lines 169-177: the rows the stop-loss loop prices
StopLossCandidates(bal) ==
  {c \in Currencies : /\ c \notin manual_holdings
                      /\ c # "KRW"
                      /\ ~(bal[c] * avg_buy_price(c) < min_holding_value)}

\* a loss test that spares a position exactly at the threshold
LossTriggeredBelow(current_price, avg, threshold) ==
  (current_price - avg) * 100 < threshold * avg

\* lines 189-191: profit_rate <= threshold, with
\* profit_rate = (current_price - avg_buy_price) / avg_buy_price * 100
LossTriggered(current_price, avg, threshold) ==
  (current_price - avg) * 100 <= threshold * avg

\* lines 184-191: the coins the check decides to sell at these prices
StopLossPlan(bal, price, threshold) ==
  {c \in StopLossCandidates(bal) :
     /\ price[c] # NoPrice
     /\ LossTriggered(price[c], avg_buy_price(c), threshold)}

\* check_loss_threshold, lines 166-214: the account, the ledger, the file, the
\* sell orders placed and the returned sold_coins.  query_ok = FALSE is
\* get_balances raising (lines 212-214); the check ends with its own
\* sync_holdings_with_current_state (line 208)
CheckLossResult(bal, led, file, t_now, threshold, query_ok, price, sell_fail, sync_ok, write_ok) ==
  IF ~query_ok
  THEN [bal |-> bal, mem |-> led, file |-> file, sold_coins |-> {}, sells |-> {}]
  ELSE LET plan == StopLossPlan(bal, price, threshold)
           sold == plan \ sell_fail
           bal1 == AfterSells(bal, sold)
           r == SyncLedger(led, file, bal1, t_now, sync_ok, write_ok)
       IN [bal |-> bal1, mem |-> r.mem, file |-> r.file,
           sold_coins |-> {Ticker(c) : c \in sold},
           sells |-> SellOrders("stop_loss", plan, sold)]

\* ------------------------------------------------------------ should_keep_coin
\* lines 250-262; (current_time - holding_periods[ticker]).days is t_now - hp[ticker]
\* a should_keep_coin that lets a position reach the limits before it refuses
ShouldKeepCoinPastLimit(ticker, hp, ch, t_now) ==
  IF hp[ticker] # NoEntry /\ t_now - hp[ticker] > max_holding_days THEN FALSE
  ELSE IF ch[ticker] # NoEntry /\ ch[ticker] > max_consecutive_holds THEN FALSE
  ELSE TRUE

ShouldKeepCoin(ticker, hp, ch, t_now) ==
  IF hp[ticker] # NoEntry /\ t_now - hp[ticker] >= max_holding_days THEN FALSE
  ELSE IF ch[ticker] # NoEntry /\ ch[ticker] >= max_consecutive_holds THEN FALSE
  ELSE TRUE

\* ------------------------------------------------------------ execute_trades
\* a sell test that keeps every target, whatever should_keep_coin says
NeedsSellOutsideTargets(ticker, target_coins, hp, ch, t_now) ==
  ticker \notin Range(target_coins)

\* line 341: the holding is sold
NeedsSell(ticker, target_coins, hp, ch, t_now) ==
  ticker \notin Range(target_coins) \/ ~ShouldKeepCoin(ticker, hp, ch, t_now)

\* lines 339-341: the holdings the sell phase places an order for
SellPlan(bal, target_coins, hp, ch, t_now) ==
  {c \in Range(CurrentHoldings(bal)) : NeedsSell(Ticker(c), target_coins, hp, ch, t_now)}

\* line 364
RemainingSlots(slots, auto_holdings_count) == slots - auto_holdings_count

\* lines 366-367: int(krw_balance / remaining_slots / 1000) * 1000
InvestAmount(krw_balance, remaining_slots) ==
  ((krw_balance \div remaining_slots) \div order_increment) * order_increment

\* line 373: the target is bought
NeedsBuy(ticker, held) == ticker \notin {Ticker(c) : c \in held}

\* the units a market buy of `amount` adds, at the unit cost; a holding at the
\* floor stays at the floor
AfterBuy(units, c, amount) ==
  Min(units + amount \div avg_buy_price(c), min_holding_value \div avg_buy_price(c))

\* a buy loop that counts a rejected order as a purchase
AfterFailedBuyCounted(st, order) ==
  [st EXCEPT !.buys = @ \cup {order},
             !.ch[order.ticker] = Get(st.ch, order.ticker) + 1]

\* lines 387-388: the order raised; only the message is sent
AfterFailedBuy(st, order) == [st EXCEPT !.buys = @ \cup {order}]

\* lines 372-388: the buy loop from target i on.  st carries the ledger, the
\* account, current_holdings, the cash still unspent and the orders placed; an
\* order fails when the exchange rejects it (buy_fail) or the cash is spent
RECURSIVE BuyLoop(_, _, _, _, _, _)
BuyLoop(target_coins, i, st, invest_amount, buy_fail, t_now) ==
  IF i > Len(target_coins) THEN st
  ELSE LET ticker == target_coins[i]
           ok == ticker \notin buy_fail /\ st.funds >= invest_amount
           order == [ticker |-> ticker, amount |-> invest_amount, ok |-> ok]
       IN IF ~NeedsBuy(ticker, st.held)
          THEN BuyLoop(target_coins, i + 1, st, invest_amount, buy_fail, t_now)
          ELSE IF ok
          THEN BuyLoop(target_coins, i + 1,
                 [hp |-> [st.hp EXCEPT ![ticker] = t_now],
                  ch |-> [st.ch EXCEPT ![ticker] = Get(st.ch, ticker) + 1],
                  lpt |-> t_now,
                  bal |-> [st.bal EXCEPT ![Symbol(ticker)] =
                             AfterBuy(@, Symbol(ticker), invest_amount)],
                  held |-> st.held \cup {Symbol(ticker)},
                  funds |-> st.funds - invest_amount,
                  buys |-> st.buys \cup {order}],
                 invest_amount, buy_fail, t_now)
          ELSE BuyLoop(target_coins, i + 1, AfterFailedBuy(st, order),
                       invest_amount, buy_fail, t_now)

\* execute_trades from line 337 on, once the account and the targets are read:
\* the sell phase (337-358), the sizing (361-370), the buy phase (372-388) and
\* save_holdings_data (390).  The result carries the account, the ledger, the
\* file and what the tick's log records.
TradeResult(bal, led, lpt, file, slots, t_now, target_coins, sell_fail, krw_balance, buy_fail, write_ok) ==
  LET current_holdings == Range(CurrentHoldings(bal))
      to_sell == SellPlan(bal, target_coins, led.holding_periods,
                          led.consecutive_holds, t_now)
      sold == to_sell \ sell_fail
      hp1 == ForgetPeriods(led.holding_periods, sold)
      ch1 == ResetHolds(led.consecutive_holds, sold)
      bal1 == AfterSells(bal, sold)
      held1 == current_holdings \ sold
      remaining_slots == RemainingSlots(slots, Cardinality(held1))
      base == [bal |-> bal1, hp |-> hp1, ch |-> ch1, lpt |-> lpt, file |-> file,
               sells |-> SellOrders("rebalance", to_sell, sold), buys |-> {},
               held_before |-> current_holdings,
               held_after_sells |-> Cardinality(held1)]
  IN IF krw_balance > 0 /\ remaining_slots > 0
     THEN IF InvestAmount(krw_balance, remaining_slots) < min_order_amount
          THEN base  \* lines 368-370: return before save_holdings_data
          ELSE LET st == BuyLoop(target_coins, 1,
                           [hp |-> hp1, ch |-> ch1, lpt |-> lpt, bal |-> bal1,
                            held |-> held1, funds |-> krw_balance, buys |-> {}],
                           InvestAmount(krw_balance, remaining_slots), buy_fail, t_now)
               IN [base EXCEPT !.bal = st.bal, !.hp = st.hp, !.ch = st.ch,
                                !.lpt = st.lpt, !.buys = st.buys,
                                !.file = SaveHoldingsData(file, st.hp, st.ch, write_ok)]
     ELSE [base EXCEPT !.file = SaveHoldingsData(file, hp1, ch1, write_ok)]

\* the targets the buy phase may place an order for after these sells
BuyCandidates(bal, led, t_now, target_coins, sell_fail) ==
  LET to_sell == SellPlan(bal, target_coins, led.holding_periods,
                          led.consecutive_holds, t_now)
      held1 == Range(CurrentHoldings(bal)) \ (to_sell \ sell_fail)
  IN {t \in Range(target_coins) : NeedsBuy(t, held1)}

\* execute_trades, lines 324-393, as the decider calls it
ExecuteTrades ==
  \E query_ok \in QueryOutcomes :
    IF ~query_ok
    THEN \* get_balances raised: line 392
         UNCHANGED <<balances, holding_periods, consecutive_holds,
                     last_purchase_time, holdings_file, trade>>
    ELSE \E m \in MarketChoices :
         \E target_coins \in {TargetCoins(m)} :
         \E sell_fail \in Rejected(SellPlan(balances, target_coins, holding_periods,
                                          consecutive_holds, now)) :
         \E krw_balance \in CashChoices :
         \E buy_fail \in Rejected(BuyCandidates(balances,
                                  Ledger(holding_periods, consecutive_holds),
                                  now, target_coins, sell_fail)) :
         \E write_ok \in WriteOutcomes :
         \E r \in {TradeResult(balances, Ledger(holding_periods, consecutive_holds),
                               last_purchase_time, holdings_file, max_slots, now,
                               target_coins, sell_fail, krw_balance, buy_fail,
                               write_ok)} :
           /\ balances' = r.bal
           /\ holding_periods' = r.hp
           /\ consecutive_holds' = r.ch
           /\ last_purchase_time' = r.lpt
           /\ holdings_file' = r.file
           /\ trade' = [trade EXCEPT !.executed = TRUE,
                          !.ranking_failed = RankingFailed(m.api_ok, m.caps),
                          !.target_coins = target_coins,
                          !.held_before = r.held_before,
                          !.held_after_sells = r.held_after_sells,
                          !.sells = @ \cup r.sells,
                          !.buys = r.buys]

\* ------------------------------------------------------- sell_all_positions
\* a liquidation that forgets the floor
LiquidationPlanAnyAmount(bal) == {c \in Coins \ manual_holdings : bal[c] > 0}

\* lines 401-409: the holdings the liquidation places an order for
LiquidationPlan(bal) == {c \in Range(CurrentHoldings(bal)) : bal[c] > 0}

\* lines 406-419 once the account is read: the account, the ledger and the
\* sell orders placed
SellAllResult(bal, hp, ch, sell_fail) ==
  LET sold == LiquidationPlan(bal) \ sell_fail
  IN [bal |-> AfterSells(bal, sold),
      hp |-> ForgetPeriods(hp, sold),
      ch |-> ResetHolds(ch, sold),
      sells |-> SellOrders("liquidate", LiquidationPlan(bal), sold)]

\* lines 400-421; nothing is saved
SellAllPositions ==
  \E query_ok \in QueryOutcomes :
    IF ~query_ok
    THEN \* get_balances raised: line 420
         UNCHANGED <<balances, holding_periods, consecutive_holds, trade>>
    ELSE \E sell_fail \in Rejected(LiquidationPlan(balances)) :
         \E r \in {SellAllResult(balances, holding_periods, consecutive_holds,
                                 sell_fail)} :
           /\ balances' = r.bal
           /\ holding_periods' = r.hp
           /\ consecutive_holds' = r.ch
           /\ trade' = [trade EXCEPT !.liquidation_read = TRUE,
                          !.sells = @ \cup r.sells]

\* ------------------------------------------------------------------ Init
\* __init__, lines 37-47: the configuration, an empty or missing ledger file
\* (load_holdings_data, lines 272-274) and the first reconciliation; run()
\* starts with is_trading_suspended = False (line 431)
\* a decider that starts suspended
InitSuspendedAtStart == TRUE
InitSuspended == FALSE

Init ==
  /\ max_slots \in MaxSlotsChoices
  /\ balances \in {b \in [Currencies -> UnitChoices] :
                     b["KRW"] = 10 /\ \A c \in manual_holdings : b[c] = 10}
  /\ \E query_ok \in SyncOutcomes, write_ok \in WriteOutcomes :
       LET r == SyncLedger(Ledger(EmptyDict, EmptyDict), Ledger(EmptyDict, EmptyDict),
                           balances, 0, query_ok, write_ok)
       IN /\ holding_periods = r.mem.holding_periods
          /\ consecutive_holds = r.mem.consecutive_holds
          /\ holdings_file = r.file
  /\ last_purchase_time = NoEntry
  /\ is_trading_suspended = InitSuspended
  /\ now = 0
  /\ pc = "sleep"
  /\ btc_above_ma = TRUE
  /\ holding_count = 0
  /\ sold_coins = {}
  /\ first_tick = TRUE
  /\ was_suspended = InitSuspended
  /\ emitted = "None"
  /\ trade = NoTrade
  /\ call = NoCall

\* ------------------------------------------------------------------ run()
\* lines 435-446: the tick reads the regime and counts the qualifying holdings
TickBegin ==
  /\ pc = "sleep"
  /\ pc' = "check_loss"
  /\ btc_above_ma' \in BOOLEAN
  /\ holding_count' = Len(CurrentHoldings(balances))
  /\ UNCHANGED <<call, max_slots, balances, holding_periods, consecutive_holds,
                 last_purchase_time, holdings_file, is_trading_suspended, now,
                 sold_coins, first_tick, was_suspended, emitted, trade>>

\* lines 436-441 raising (get_btc_ma120 or get_balances): lines 491-493 report
\* the error and sleep; the tick did nothing
TickFail ==
  /\ pc = "sleep"
  /\ now' \in {now + d : d \in {x \in SleepDays : now + x <= MaxNow}}
  /\ first_tick' = FALSE
  /\ UNCHANGED <<call, max_slots, balances, holding_periods, consecutive_holds,
                 last_purchase_time, holdings_file, is_trading_suspended, pc,
                 btc_above_ma, holding_count, sold_coins, was_suspended, emitted,
                 trade>>

\* a loop that skips the stop-loss check while trading is suspended
StopLossRunsWhenActive(suspended) == ~suspended

\* line 450 is not under any condition: the check is called in every tick,
\* whatever is_trading_suspended
StopLossRuns(suspended) == TRUE

\* line 450: sold_coins = self.check_loss_threshold(threshold=-20)
CheckLossThreshold ==
  /\ pc = "check_loss"
  /\ pc' = "sync"
  /\ IF StopLossRuns(is_trading_suspended)
     THEN \E query_ok \in QueryOutcomes :
          \E price \in IF query_ok
                        THEN [StopLossCandidates(balances) -> PriceChoices]
                        ELSE {[c \in StopLossCandidates(balances) |-> NoPrice]} :
          \E sell_fail \in Rejected(StopLossPlan(balances, price, loss_threshold)) :
          \E sync_ok \in SyncOutcomes, write_ok \in WriteOutcomes :
          \E r \in {CheckLossResult(balances,
                                    Ledger(holding_periods, consecutive_holds),
                                    holdings_file, now, loss_threshold, query_ok,
                                    price, sell_fail, sync_ok, write_ok)} :
            /\ balances' = r.bal
            /\ holding_periods' = r.mem.holding_periods
            /\ consecutive_holds' = r.mem.consecutive_holds
            /\ holdings_file' = r.file
            /\ sold_coins' = r.sold_coins
            /\ trade' = [trade EXCEPT !.check_ran = TRUE, !.sells = @ \cup r.sells]
     ELSE /\ sold_coins' = {}
          /\ UNCHANGED <<balances, holding_periods, consecutive_holds,
                         holdings_file, trade>>
  /\ \A t \in Tickers : consecutive_holds'[t] <= MaxCount
  /\ UNCHANGED <<call, max_slots, last_purchase_time, is_trading_suspended, now,
                 btc_above_ma, holding_count, first_tick, was_suspended, emitted>>

\* line 453: sync_holdings_with_current_state after the stop-loss check
SyncHoldings ==
  /\ pc = "sync"
  /\ pc' = "decide"
  /\ \E query_ok \in SyncOutcomes, write_ok \in WriteOutcomes :
     \E r \in {SyncLedger(Ledger(holding_periods, consecutive_holds),
                          holdings_file, balances, now, query_ok, write_ok)} :
       /\ holding_periods' = r.mem.holding_periods
       /\ consecutive_holds' = r.mem.consecutive_holds
       /\ holdings_file' = r.file
  /\ \A t \in Tickers : consecutive_holds'[t] <= MaxCount
  /\ UNCHANGED <<call, max_slots, balances, last_purchase_time, is_trading_suspended,
                 now, btc_above_ma, holding_count, sold_coins, first_tick,
                 was_suspended, emitted, trade>>

TickUnchanged == UNCHANGED <<call, max_slots, now, btc_above_ma, holding_count,
                             sold_coins, first_tick, was_suspended>>
NoOrders == UNCHANGED <<balances, holding_periods, consecutive_holds,
                        last_purchase_time, holdings_file, is_trading_suspended,
                        emitted, trade>>

\* line 471: minutes since the last purchase
ElapsedMinutes(t_now, since) == (t_now - since) * 24 * 60

\* lines 479-482
ShouldRebalance(sold, count) == Cardinality(sold) > 0 \/ count < 3

\* a liquidation that leaves trading active
LiquidateAllStayActive ==
  /\ pc = "decide"
  /\ ~btc_above_ma /\ ~is_trading_suspended
  /\ SellAllPositions
  /\ is_trading_suspended' = FALSE
  /\ emitted' = "LiquidateAll"
  /\ pc' = "done"
  /\ UNCHANGED <<last_purchase_time, holdings_file>>
  /\ TickUnchanged

\* lines 456-460: the regime is off and trading is not suspended
LiquidateAll ==
  /\ pc = "decide"
  /\ ~btc_above_ma /\ ~is_trading_suspended
  /\ SellAllPositions
  /\ is_trading_suspended' = TRUE
  /\ emitted' = "LiquidateAll"
  /\ pc' = "done"
  /\ UNCHANGED <<last_purchase_time, holdings_file>>
  /\ TickUnchanged

\* a suspended decider that rebalances although the regime is off
StaySuspendedRebalances ==
  /\ pc = "decide"
  /\ ~btc_above_ma /\ is_trading_suspended
  /\ ExecuteTrades
  /\ \A t \in Tickers : consecutive_holds'[t] <= MaxCount
  /\ emitted' = "FullRebalance"
  /\ pc' = "done"
  /\ UNCHANGED is_trading_suspended
  /\ TickUnchanged

\* lines 456-457: the regime is off and trading is already suspended
StaySuspended ==
  /\ pc = "decide"
  /\ ~btc_above_ma /\ is_trading_suspended
  /\ pc' = "done"
  /\ NoOrders
  /\ TickUnchanged

\* a resumption that waits for the next tick to trade
ResumeTradingLater ==
  /\ pc = "decide"
  /\ btc_above_ma /\ is_trading_suspended
  /\ is_trading_suspended' = FALSE
  /\ UNCHANGED <<balances, holding_periods, consecutive_holds,
                 last_purchase_time, holdings_file, emitted, trade>>
  /\ pc' = "done"
  /\ TickUnchanged

\* lines 462-465: the regime is back on
ResumeTrading ==
  /\ pc = "decide"
  /\ btc_above_ma /\ is_trading_suspended
  /\ is_trading_suspended' = FALSE
  /\ ExecuteTrades
  /\ \A t \in Tickers : consecutive_holds'[t] <= MaxCount
  /\ emitted' = "FullRebalance"
  /\ pc' = "done"
  /\ TickUnchanged

\* lines 467-474: nothing is held and the interval since the last purchase is over
RebalanceAfterInterval ==
  /\ pc = "decide"
  /\ btc_above_ma /\ ~is_trading_suspended
  /\ holding_count = 0
  /\ last_purchase_time # NoEntry
  /\ ElapsedMinutes(now, last_purchase_time) >= rebalancing_interval
  /\ ExecuteTrades
  /\ \A t \in Tickers : consecutive_holds'[t] <= MaxCount
  /\ emitted' = "FullRebalance"
  /\ pc' = "done"
  /\ UNCHANGED is_trading_suspended
  /\ TickUnchanged

\* lines 467-472: nothing is held and the interval is not over yet
WaitForInterval ==
  /\ pc = "decide"
  /\ btc_above_ma /\ ~is_trading_suspended
  /\ holding_count = 0
  /\ last_purchase_time # NoEntry
  /\ ~(ElapsedMinutes(now, last_purchase_time) >= rebalancing_interval)
  /\ pc' = "done"
  /\ NoOrders
  /\ TickUnchanged

\* lines 475-477: nothing is held and no purchase was made since the start
RebalanceNoPurchase ==
  /\ pc = "decide"
  /\ btc_above_ma /\ ~is_trading_suspended
  /\ holding_count = 0
  /\ last_purchase_time = NoEntry
  /\ ExecuteTrades
  /\ \A t \in Tickers : consecutive_holds'[t] <= MaxCount
  /\ emitted' = "FullRebalance"
  /\ pc' = "done"
  /\ UNCHANGED is_trading_suspended
  /\ TickUnchanged

\* lines 478-487: something is held and should_rebalance
Rebalance ==
  /\ pc = "decide"
  /\ btc_above_ma /\ ~is_trading_suspended
  /\ holding_count # 0
  /\ ShouldRebalance(sold_coins, holding_count)
  /\ ExecuteTrades
  /\ \A t \in Tickers : consecutive_holds'[t] <= MaxCount
  /\ emitted' = "FullRebalance"
  /\ pc' = "done"
  /\ UNCHANGED is_trading_suspended
  /\ TickUnchanged

\* lines 478-484: something is held and should_rebalance is false
NoRebalance ==
  /\ pc = "decide"
  /\ btc_above_ma /\ ~is_trading_suspended
  /\ holding_count # 0
  /\ ~ShouldRebalance(sold_coins, holding_count)
  /\ pc' = "done"
  /\ NoOrders
  /\ TickUnchanged

\* line 489: time.sleep(60); the tick's locals and its log end with the tick
Sleep ==
  /\ pc = "done"
  /\ pc' = "sleep"
  /\ now' \in {now + d : d \in {x \in SleepDays : now + x <= MaxNow}}
  /\ first_tick' = FALSE
  /\ btc_above_ma' = TRUE
  /\ holding_count' = 0
  /\ sold_coins' = {}
  /\ was_suspended' = is_trading_suspended
  /\ emitted' = "None"
  /\ trade' = NoTrade
  /\ UNCHANGED <<call, max_slots, balances, holding_periods, consecutive_holds,
                 last_purchase_time, holdings_file, is_trading_suspended>>

\* ------------------------------------------------------------ environment
\* between two ticks the account's owner deposits, withdraws or trades a coin
ExternalChange ==
  /\ pc = "sleep"
  /\ \E c \in Coins \ manual_holdings, u \in DepositChoices :
       balances' = [balances EXCEPT ![c] = u]
  /\ UNCHANGED <<call, max_slots, holding_periods, consecutive_holds,
                 last_purchase_time, holdings_file, is_trading_suspended, now, pc,
                 btc_above_ma, holding_count, sold_coins, first_tick,
                 was_suspended, emitted, trade>>

Next ==
  \/ TickBegin
  \/ TickFail
  \/ CheckLossThreshold
  \/ SyncHoldings
  \/ LiquidateAll
  \/ StaySuspended
  \/ ResumeTrading
  \/ RebalanceAfterInterval
  \/ WaitForInterval
  \/ RebalanceNoPurchase
  \/ Rebalance
  \/ NoRebalance
  \/ Sleep
  \/ ExternalChange

Spec == Init /\ [][Next]_vars

TypeOK ==
  /\ max_slots \in MaxSlotsChoices
  /\ balances \in [Currencies -> UnitChoices]
  /\ holding_periods \in [Tickers -> {NoEntry} \cup 0..MaxNow]
  /\ consecutive_holds \in [Tickers -> {NoEntry} \cup 0..MaxCount]
  /\ last_purchase_time \in {NoEntry} \cup 0..MaxNow
  /\ is_trading_suspended \in BOOLEAN
  /\ now \in 0..MaxNow
  /\ pc \in {"sleep", "check_loss", "sync", "decide", "done", "call"}
  /\ emitted \in {"None", "LiquidateAll", "FullRebalance"}

\* ================================================================ claims
Max(a, b) == IF a >= b THEN a ELSE b
StopLossSells == {o \in trade.sells : o.by = "stop_loss"}
LiquidationSells(log) == {o \in log.sells : o.by = "liquidate"}
RebalanceSells(log) == {o \in log.sells : o.by = "rebalance"}
\* this step is the decider's: the tick goes from line 455 to line 489
DeciderStep == pc = "decide" /\ pc' = "done"
\* the tick began ACTIVE, the regime allows trading, no transition is due
ActiveTick == pc = "done" /\ btc_above_ma /\ ~was_suspended

\* C1: in every execution of execute_trades every buy order placed is of at
\* least the minimum order size, and the number of buy orders placed is at
\* most the remaining slots (max_slots less the holdings left after the sells)
C1_BuysWithinRemainingSlots ==
  trade.executed =>
    /\ \A o \in trade.buys : o.amount >= min_order_amount
    /\ Cardinality(trade.buys) <= Max(max_slots - trade.held_after_sells, 0)

\* C2: when the ranking failed, the execute_trades of that tick places no sell
\* order and no buy order and leaves the tracked positions as they were
C2_FailedRankingIsNoOp ==
  [][(~trade.executed /\ trade'.executed /\ trade'.ranking_failed)
       => /\ RebalanceSells(trade') = {}
          /\ trade'.buys = {}
          /\ holding_periods' = holding_periods]_vars

\* C3: a tick whose decider finds the regime off and trading not suspended
\* emits LiquidateAll, a sell attempt for every qualifying non-manual holding
\* of the account it reads, and ends suspended
C3_RegimeOffLiquidates ==
  [][(DeciderStep /\ ~btc_above_ma /\ ~is_trading_suspended)
       => /\ emitted' = "LiquidateAll"
          /\ is_trading_suspended'
          /\ trade'.buys = {}
          /\ trade'.liquidation_read =>
               {o.ticker : o \in LiquidationSells(trade')} =
                 {Ticker(c) : c \in {x \in Coins \ manual_holdings :
                    balances[x] * avg_buy_price(x) >= min_holding_value}}]_vars
C3_Witness ==
  /\ pc = "done" /\ ~btc_above_ma /\ ~was_suspended
  /\ emitted = "LiquidateAll" /\ is_trading_suspended
  /\ Cardinality(LiquidationSells(trade)) = 2

\* C4: a tick whose decider finds the regime on and trading suspended resumes
\* trading and calls execute_trades in that tick, and trading is resumed in no
\* other step
C4_RegimeOnResumes ==
  [][/\ (DeciderStep /\ btc_above_ma /\ is_trading_suspended)
          => (~is_trading_suspended' /\ emitted' = "FullRebalance")
     /\ (is_trading_suspended /\ ~is_trading_suspended')
          => (DeciderStep /\ btc_above_ma /\ emitted' = "FullRebalance")]_vars
C4_Witness ==
  /\ pc = "done" /\ btc_above_ma /\ was_suspended /\ ~is_trading_suspended
  /\ emitted = "FullRebalance" /\ trade.executed /\ trade.buys # {}

\* C5: every active tick that counts fewer qualifying holdings than max_slots
\* executes a rebalance, for every max_slots >= 1, also with nothing held
C5_FreeSlotRebalances ==
  (ActiveTick /\ holding_count < max_slots) => emitted = "FullRebalance"

\* C6: every active tick in which the oldest tracked position is at least the
\* rebalancing interval old executes a rebalance, also with every slot filled
\* and no stop-loss sale
C6_IntervalRebalances ==
  (ActiveTick /\ \E t \in Keys(holding_periods) :
                   ElapsedMinutes(now, holding_periods[t]) >= rebalancing_interval)
    => emitted = "FullRebalance"

\* C7 as stated: when the regime is off on the first tick, trading is suspended
\* from the start and no ACTIVE -> SUSPENDED transition (LiquidateAll) is taken
C7_InitialStateFromRegime ==
  (first_tick /\ pc = "done" /\ ~btc_above_ma)
    => (was_suspended /\ emitted # "LiquidateAll")
\* C7 as amended: the decider starts ACTIVE; when the regime is off on the
\* first tick the tick takes the ACTIVE -> SUSPENDED transition: it emits
\* LiquidateAll and ends suspended
C7_StartsActive ==
  /\ (first_tick /\ pc # "done") => ~is_trading_suspended
  /\ (first_tick /\ pc = "done" /\ ~btc_above_ma)
       => (~was_suspended /\ emitted = "LiquidateAll" /\ is_trading_suspended)
C7_Witness ==
  /\ first_tick /\ pc = "done" /\ ~btc_above_ma
  /\ \E o \in LiquidationSells(trade) : o.ok

\* C8 as stated: the stop-loss check runs, and stop-loss sell orders are
\* placed, only in ticks that began ACTIVE
C8_StopLossOnlyWhenActive ==
  was_suspended => (~trade.check_ran /\ StopLossSells = {})
\* C8 as amended: the stop-loss check runs in every tick that gets past the
\* holdings count, ACTIVE or SUSPENDED, before the decider; its sell orders are
\* placed by then, also in a tick that begins and ends SUSPENDED
C8_StopLossEveryTick ==
  /\ pc \in {"sync", "decide", "done"} => trade.check_ran
  /\ pc = "check_loss" => (~trade.check_ran /\ trade.sells = {})
C8_Witness ==
  /\ pc = "done" /\ was_suspended /\ is_trading_suspended
  /\ \E o \in StopLossSells : o.ok

\* C9: the tickers sell_all_positions places a sell order for are exactly the
\* account's holdings worth at least the floor that are not manual, and every
\* sell that succeeds clears the ticker's ledger entry and zeroes its count
C9_LiquidationPlan ==
  [][(~trade.liquidation_read /\ trade'.liquidation_read)
       => /\ {o.ticker : o \in LiquidationSells(trade')} =
               {Ticker(c) : c \in {x \in Currencies :
                  /\ balances[x] * avg_buy_price(x) >= min_holding_value
                  /\ x \notin manual_holdings}}
          /\ \A o \in LiquidationSells(trade') :
               o.ok => /\ holding_periods'[o.ticker] = NoEntry
                       /\ consecutive_holds'[o.ticker] = 0]_vars
C9_Witness ==
  /\ trade.liquidation_read
  /\ \E o \in LiquidationSells(trade) : o.ok /\ holding_periods[o.ticker] = NoEntry
  /\ \E o \in LiquidationSells(trade) : ~o.ok
  /\ \E c \in Coins : balances[c] = 5

\* C10: no buy order and no sell order is placed for a manual holding, and the
\* ledger never has an entry for one
C10_ManualUntouched ==
  /\ \A o \in trade.sells \cup trade.buys : Symbol(o.ticker) \notin manual_holdings
  /\ \A c \in manual_holdings : /\ holding_periods[Ticker(c)] = NoEntry
                                /\ consecutive_holds[Ticker(c)] = NoEntry
                                /\ holdings_file.holding_periods[Ticker(c)] = NoEntry
C10_Witness ==
  /\ pc = "done" /\ balances["M"] = 10
  /\ StopLossSells # {} /\ RebalanceSells(trade) # {} /\ trade.buys # {}
  /\ Keys(holding_periods) # {}

\* the account holds the coin of ticker t at or above the floor, and the coin
\* is neither manual nor KRW
HeldAboveFloor(bal, t) ==
  /\ Symbol(t) \notin manual_holdings
  /\ Symbol(t) # "KRW"
  /\ bal[Symbol(t)] * avg_buy_price(Symbol(t)) >= min_holding_value
\* a ledger-mutating operation has just ended: the reconciliation of line 453,
\* or an execute_trades or sell_all_positions that got its account snapshot
OperationEnded ==
  \/ pc = "decide"
  \/ pc = "done" /\ (trade.executed \/ trade.liquidation_read)

\* C11: at the end of every ledger-mutating operation a ticker has an entry in
\* holding_periods if and only if the account holds that coin at or above the
\* floor and the coin is neither manual nor KRW
C11_LedgerIffHeld ==
  OperationEnded =>
    \A t \in Tickers : holding_periods[t] # NoEntry <=> HeldAboveFloor(balances, t)

\* this step is an execute_trades that got its account snapshot
ExecuteStep == ~trade.executed /\ trade'.executed
\* the holdings execute_trades finds, as tickers
HeldTickers(bal) ==
  {t \in Tickers : bal[Symbol(t)] > 0 /\ HeldAboveFloor(bal, t)}
SoldTickers(orders) == {o.ticker : o \in {x \in orders : x.ok}}

\* C12: in every rebalance the count of a held position that is kept (it is a
\* target and is not sold) goes up by one, and the count of every position
\* sold (by rebalance, liquidation or stop-loss) is 0 at that moment
C12_CountFollowsCycles ==
  [][/\ ExecuteStep =>
          \A t \in HeldTickers(balances) :
            (t \in Range(trade'.target_coins) /\ t \notin SoldTickers(trade'.sells))
              => consecutive_holds'[t] = Get(consecutive_holds, t) + 1
     /\ \A t \in SoldTickers(trade'.sells \ trade.sells) :
          t \notin SoldTickers(trade'.buys) => Get(consecutive_holds', t) = 0]_vars

\* C13: whenever an operation that changed the in-memory ledger returns, the
\* ledger file equals the in-memory ledger (the write itself does not fail)
C13_LedgerPersisted ==
  [][(holding_periods' # holding_periods \/ consecutive_holds' # consecutive_holds)
       => holdings_file' = Ledger(holding_periods', consecutive_holds')]_vars

\* ============================================== single calls of one method
\* The methods below are functions of the ledger, the account snapshot and
\* what the exchange answers.  SpecCalls calls each of them once on every
\* input of a bounded set and keeps the arguments and the result in `call`;
\* the strategy object itself stays as constructed.

\* an account snapshot: every coin empty, below the floor or at the floor
AccountChoices == {b \in [Currencies -> UnitChoices] : b["KRW"] = 10}
\* a dictionary of the ledger with these values: any set of keys, none for KRW
DictChoices(values) ==
  {d \in [Tickers -> values \cup {NoEntry}] : d[Ticker("KRW")] = NoEntry}

InitCalls ==
  /\ max_slots = 3
  /\ balances = [c \in Currencies |-> IF c = "KRW" THEN 10 ELSE 0]
  /\ holding_periods = EmptyDict
  /\ consecutive_holds = EmptyDict
  /\ holdings_file = Ledger(EmptyDict, EmptyDict)
  /\ last_purchase_time = NoEntry
  /\ is_trading_suspended = InitSuspended
  /\ now = 0
  /\ pc = "call"
  /\ btc_above_ma = TRUE
  /\ holding_count = 0
  /\ sold_coins = {}
  /\ first_tick = TRUE
  /\ was_suspended = InitSuspended
  /\ emitted = "None"
  /\ trade = NoTrade
  /\ call = NoCall

ObjectUnchanged ==
  UNCHANGED <<max_slots, balances, holding_periods, consecutive_holds,
              last_purchase_time, holdings_file, is_trading_suspended, now, pc,
              btc_above_ma, holding_count, sold_coins, first_tick,
              was_suspended, emitted, trade>>

\* sync_holdings_with_current_state (lines 292-320) called on day 1 and, with
\* the same account snapshot, again on day 2
CallSyncHoldings ==
  /\ pc = "call" /\ call = NoCall
  /\ \E hp \in DictChoices({0}), ch \in DictChoices({0, 2}), bal \in AccountChoices :
     \E once \in {SyncLedger(Ledger(hp, ch), Ledger(hp, ch), bal, 1, TRUE, TRUE).mem} :
     \E twice \in {SyncLedger(once, once, bal, 2, TRUE, TRUE).mem} :
       call' = [op |-> "sync_holdings_with_current_state",
                before |-> Ledger(hp, ch), balances |-> bal,
                once |-> once, twice |-> twice]
  /\ ObjectUnchanged

\* days on which should_keep_coin is asked, and the ledger it may find for the
\* ticker: acquired 15, 14, 13 or 0 days before, or not tracked; count absent,
\* 0, 2, 3 or 4
AskDays == {14, 15}
AcquiredChoices == {NoEntry, 0, 1, 14}
CountChoices == {NoEntry, 0, 2, 3, 4}

\* should_keep_coin(ticker), lines 244-262
CallShouldKeepCoin ==
  /\ pc = "call" /\ call = NoCall
  /\ \E c \in Coins \ manual_holdings, t_now \in AskDays :
     \E acquired \in AcquiredChoices, count \in CountChoices :
     \E hp \in {[EmptyDict EXCEPT ![Ticker(c)] = acquired]} :
     \E ch \in {[EmptyDict EXCEPT ![Ticker(c)] = count]} :
       call' = [op |-> "should_keep_coin", ticker |-> Ticker(c),
                holding_periods |-> hp, consecutive_holds |-> ch, now |-> t_now,
                result |-> ShouldKeepCoin(Ticker(c), hp, ch, t_now)]
  /\ ObjectUnchanged

\* the thresholds check_loss_threshold is called with: run()'s and its default
ThresholdChoices == {loss_threshold, 0 - 10}
\* the ledger a method finds for this account on day 0: reconciled, or not yet
LedgerChoices(bal) ==
  {Ledger(EmptyDict, EmptyDict),
   SyncLedger(Ledger(EmptyDict, EmptyDict), Ledger(EmptyDict, EmptyDict),
              bal, 0, TRUE, TRUE).mem}

\* check_loss_threshold(threshold), lines 156-214, on day 1
CallCheckLossThreshold ==
  /\ pc = "call" /\ call = NoCall
  /\ \E bal \in AccountChoices, threshold \in ThresholdChoices :
     \E led \in LedgerChoices(bal) :
     \E price \in [Coins -> PriceChoices] :
     \E sell_fail \in Rejected(StopLossPlan(bal, price, threshold)) :
       call' = [op |-> "check_loss_threshold", balances |-> bal, before |-> led,
                threshold |-> threshold, price |-> price, sell_fail |-> sell_fail,
                result |-> CheckLossResult(bal, led, led, 1, threshold, TRUE,
                                           price, sell_fail, TRUE, TRUE)]
  /\ ObjectUnchanged

\* sell_all_positions(), lines 396-421
CallSellAllPositions ==
  /\ pc = "call" /\ call = NoCall
  /\ \E bal \in AccountChoices :
     \E led \in LedgerChoices(bal) :
     \E sell_fail \in Rejected(LiquidationPlan(bal)) :
       call' = [op |-> "sell_all_positions", balances |-> bal, before |-> led,
                sell_fail |-> sell_fail,
                result |-> SellAllResult(bal, led.holding_periods,
                                         led.consecutive_holds, sell_fail)]
  /\ ObjectUnchanged

\* the days on which execute_trades is called: the day after the ledger of
\* LedgerChoices was written, and 14 days after it
TradeDays == {1, 14}

\* execute_trades(), lines 322-393
CallExecuteTrades ==
  /\ pc = "call" /\ call = NoCall
  /\ \E bal \in AccountChoices, t_now \in TradeDays, slots \in MaxSlotsChoices :
     \E led \in LedgerChoices(bal) :
     \E m \in MarketChoices :
     \E target_coins \in {TargetCoins(m)} :
     \E sell_fail \in Rejected(SellPlan(bal, target_coins, led.holding_periods,
                                        led.consecutive_holds, t_now)) :
     \E krw_balance \in CashChoices :
     \E buy_fail \in Rejected(BuyCandidates(bal, led, t_now, target_coins, sell_fail)) :
       call' = [op |-> "execute_trades", balances |-> bal, before |-> led,
                now |-> t_now, max_slots |-> slots, target_coins |-> target_coins,
                sell_fail |-> sell_fail, krw_balance |-> krw_balance,
                buy_fail |-> buy_fail,
                result |-> TradeResult(bal, led, NoEntry, led, slots, t_now,
                                       target_coins, sell_fail, krw_balance,
                                       buy_fail, TRUE)]
  /\ ObjectUnchanged

\* the candidate lists get_top20_market_cap can return under the exclusion
\* lists of a configuration: the listed tickers, none twice, in any order
CandidateLists ==
  {q \in UNION {[1..n -> Tickers \ {Ticker("KRW")}] : n \in 0..Len(ListedSymbols)} :
     \A i, j \in 1..Len(q) : i # j => q[i] # q[j]}
HistoryChoices ==
  {NoHistory, ShortHistory, FlatHistory, UpHistory, WeekHistory, DownHistory}

\* calculate_7day_returns(top20) and the selection of get_top3_momentum,
\* lines 217-242
CallGetTop3Momentum ==
  /\ pc = "call" /\ call = NoCall
  /\ \E top20 \in CandidateLists :
     \E hist \in [Range(ListedSymbols) -> HistoryChoices] :
       call' = [op |-> "get_top3_momentum", top20 |-> top20, hist |-> hist,
                result |-> GetTop3Momentum(top20, hist)]
  /\ ObjectUnchanged

NextCalls ==
  \/ CallGetTop3Momentum
  \/ CallSyncHoldings
  \/ CallShouldKeepCoin
  \/ CallCheckLossThreshold
  \/ CallSellAllPositions
  \/ CallExecuteTrades

SpecCalls == InitCalls /\ [][NextCalls]_vars

\* C14: reconciling twice with the same account snapshot leaves the tracked
\* tickers, their acquisition times and all counts as they were after the
\* first reconciliation, and after one reconciliation the tracked tickers are
\* exactly the snapshot's qualifying non-manual holdings
C14_ReconcileIdempotent ==
  call.op = "sync_holdings_with_current_state" =>
    /\ call.twice = call.once
    /\ Keys(call.once.holding_periods) =
         {t \in Tickers : HeldAboveFloor(call.balances, t)}
C14_Witness ==
  /\ call.op = "sync_holdings_with_current_state"
  /\ Keys(call.before.holding_periods) \ Keys(call.once.holding_periods) # {}
  /\ Keys(call.once.holding_periods) \ Keys(call.before.holding_periods) # {}
  /\ \E t \in Tickers : call.before.consecutive_holds[t] = 2 /\
                        call.once.consecutive_holds[t] = 3
  /\ \E c \in Coins : call.balances[c] = 5

\* the whole days the ticker of the call has been held, and its count
CallAge == call.now - call.holding_periods[call.ticker]
CallTracked == call.holding_periods[call.ticker] # NoEntry
CallCount == call.consecutive_holds[call.ticker]

\* C15: should_keep_coin is false whenever the position is at least 14 whole
\* days old, whatever its count; false whenever its count is at least 3,
\* whatever its age; and true in every other case, also for a ticker with no
\* ledger entry
C15_ShouldRetain ==
  call.op = "should_keep_coin" =>
    /\ (CallTracked /\ CallAge >= 14) => ~call.result
    /\ (CallCount # NoEntry /\ CallCount >= 3) => ~call.result
    /\ (~(CallTracked /\ CallAge >= 14) /\ ~(CallCount # NoEntry /\ CallCount >= 3))
         => call.result
C15_Witness ==
  /\ call.op = "should_keep_coin"
  /\ CallTracked /\ CallAge = 14 /\ CallCount = 0 /\ ~call.result

\* C16: the holdings execute_trades places a sell order for are exactly the
\* qualifying holdings that are not a target or that should_keep_coin refuses
\* (held 14 days or more, or count 3 or more), targets included
C16_RebalanceSellPlan ==
  [][ExecuteStep =>
       {o.ticker : o \in RebalanceSells(trade')} =
         {t \in HeldTickers(balances) :
            \/ t \notin Range(trade'.target_coins)
            \/ holding_periods[t] # NoEntry /\ now - holding_periods[t] >= 14
            \/ consecutive_holds[t] # NoEntry /\ consecutive_holds[t] >= 3}]_vars
C16_Witness ==
  /\ pc = "done" /\ trade.executed
  /\ \E o \in RebalanceSells(trade) : o.ticker \in Range(trade.target_coins)
  /\ \E o \in RebalanceSells(trade) : o.ticker \notin Range(trade.target_coins)
  /\ \E c \in trade.held_before : Ticker(c) \notin {o.ticker : o \in trade.sells}

\* the return of coin c at the price of the call, in percent, times its cost
CallLoss(c) == (call.price[c] - avg_buy_price(c)) * 100
\* the coins the stop-loss check of the call has to sell
CallStopLossSet ==
  {c \in Coins \ manual_holdings :
     /\ call.balances[c] * avg_buy_price(c) >= min_holding_value
     /\ call.price[c] # NoPrice
     /\ CallLoss(c) <= call.threshold * avg_buy_price(c)}

\* C18: the stop-loss check places sell orders for exactly the qualifying
\* non-manual positions whose price is available and whose return is at or
\* below the threshold; a position above the threshold, below the floor or
\* without a price is never sold by it
C18_StopLossSet ==
  call.op = "check_loss_threshold" =>
    /\ {o.ticker : o \in call.result.sells} = {Ticker(c) : c \in CallStopLossSet}
    /\ \A o \in call.result.sells : o.by = "stop_loss"
    /\ call.result.sold_coins = {Ticker(c) : c \in CallStopLossSet \ call.sell_fail}
    /\ \A c \in Coins \ CallStopLossSet :
         call.result.bal[c] = call.balances[c]
C18_Witness ==
  /\ call.op = "check_loss_threshold" /\ call.threshold = loss_threshold
  /\ call.balances["A"] = 10 /\ call.price["A"] = 800
  /\ call.balances["B"] = 10 /\ call.price["B"] = 850
  /\ call.balances["C"] = 5 /\ call.price["C"] = 800
  /\ call.balances["M"] = 10 /\ call.price["M"] = 800
  /\ call.result.sold_coins = {Ticker("A")}

\* the qualifying holdings of the call's account, the orders of the call that
\* failed and those that were executed
CallHeld ==
  {Ticker(c) : c \in {x \in Coins \ manual_holdings :
                        call.balances[x] * avg_buy_price(x) >= min_holding_value}}
FailedOrders(orders) == {o.ticker : o \in {x \in orders : ~x.ok}}
\* the ticker's ledger entry and count are those the call found
EntryUnchanged(t, hp, ch) ==
  /\ hp[t] = call.before.holding_periods[t]
  /\ ch[t] = call.before.consecutive_holds[t]
\* the holdings execute_trades has to sell and, once they are sold, the targets
\* it has to buy with the cash it reads
CallSellSet ==
  {t \in CallHeld :
     \/ t \notin Range(call.target_coins)
     \/ /\ call.before.holding_periods[t] # NoEntry
        /\ call.now - call.before.holding_periods[t] >= 14
     \/ /\ call.before.consecutive_holds[t] # NoEntry
        /\ call.before.consecutive_holds[t] >= 3}
CallKept == CallHeld \ SoldTickers(call.result.sells)
CallFreeSlots == call.max_slots - Cardinality(CallKept)
CallBuySet ==
  IF /\ call.krw_balance > 0
     /\ CallFreeSlots > 0
     /\ ((call.krw_balance \div CallFreeSlots) \div 1000) * 1000 >= 5000
  THEN Range(call.target_coins) \ CallKept
  ELSE {}

\* C17: an order that fails changes neither the ledger entry nor the count of
\* its ticker, and stops nothing: the stop-loss check, the liquidation and the
\* rebalance still place every other sell order of their plan, and the
\* rebalance still runs its buy phase and places every buy order of it
C17_FailedOrderIsSkipped ==
  /\ call.op = "check_loss_threshold" =>
       /\ {o.ticker : o \in call.result.sells} = {Ticker(c) : c \in CallStopLossSet}
       /\ \A t \in FailedOrders(call.result.sells) :
            call.before.holding_periods[t] # NoEntry =>
              EntryUnchanged(t, call.result.mem.holding_periods,
                             call.result.mem.consecutive_holds)
  /\ call.op = "sell_all_positions" =>
       /\ {o.ticker : o \in call.result.sells} = CallHeld
       /\ \A t \in FailedOrders(call.result.sells) :
            EntryUnchanged(t, call.result.hp, call.result.ch)
  /\ call.op = "execute_trades" =>
       /\ {o.ticker : o \in call.result.sells} = CallSellSet
       /\ {o.ticker : o \in call.result.buys} = CallBuySet
       /\ \A t \in FailedOrders(call.result.sells) :
            EntryUnchanged(t, call.result.hp, call.result.ch)
       /\ \A t \in FailedOrders(call.result.buys) \ SoldTickers(call.result.sells) :
            EntryUnchanged(t, call.result.hp, call.result.ch)
\* a rebalance whose first sell fails, whose second sell is executed and whose
\* buy phase places an order that fails and one that is executed
C17_Witness ==
  /\ call.op = "execute_trades"
  /\ \E f \in call.result.sells, o \in call.result.sells : ~f.ok /\ o.ok
  /\ \E f \in call.result.buys, o \in call.result.buys : ~f.ok /\ o.ok
  /\ \E t \in FailedOrders(call.result.sells) :
       call.before.holding_periods[t] # NoEntry
\* a stop-loss check and a liquidation with a failed and an executed order
C17_WitnessStopLoss ==
  /\ call.op = "check_loss_threshold"
  /\ \E f \in call.result.sells, o \in call.result.sells : ~f.ok /\ o.ok
  /\ \E t \in FailedOrders(call.result.sells) :
       call.before.holding_periods[t] # NoEntry
C17_WitnessLiquidation ==
  /\ call.op = "sell_all_positions"
  /\ \E f \in call.result.sells, o \in call.result.sells : ~f.ok /\ o.ok

\* the history of a ticker in the call, its gain over the seven days and the
\* close the gain is measured from; a/b >= c/d is a*d >= c*b for closes > 0
CallHistory(t) == call.hist[Symbol(t)]
Gain(df) == df[Len(df)] - df[Len(df) - 6]
Base(df) == df[Len(df) - 6]
ScoreAtLeast(t, u) ==
  Gain(CallHistory(t)) * Base(CallHistory(u)) >= Gain(CallHistory(u)) * Base(CallHistory(t))
PositionIn(list, t) == CHOOSE i \in 1..Len(list) : list[i] = t

\* C19: the momentum selection returns at most 3 tickers, each a candidate
\* with at least 7 daily closes, none twice, in descending order of the 7-day
\* return, two tickers of equal return in the order of the candidate list
C19_MomentumSelection ==
  call.op = "get_top3_momentum" =>
    /\ Len(call.result) <= 3
    /\ \A i \in 1..Len(call.result) :
         /\ call.result[i] \in Range(call.top20)
         /\ Len(CallHistory(call.result[i])) >= 7
    /\ \A i, j \in 1..Len(call.result) :
         i < j =>
           /\ call.result[i] # call.result[j]
           /\ ScoreAtLeast(call.result[i], call.result[j])
           /\ ScoreAtLeast(call.result[j], call.result[i]) =>
                PositionIn(call.top20, call.result[i]) <
                  PositionIn(call.top20, call.result[j])
\* four candidates with enough history: three are returned, two of them tied
\* and one with exactly 7 closes
C19_Witness ==
  /\ call.op = "get_top3_momentum"
  /\ Len(call.top20) = 4
  /\ Cardinality({t \in Range(call.top20) : Len(CallHistory(t)) >= 7}) = 4
  /\ Len(call.result) = 3
  /\ \E i, j \in 1..3 :
       /\ i < j
       /\ ScoreAtLeast(call.result[j], call.result[i])
  /\ \E i \in 1..3 : CallHistory(call.result[i]) = WeekHistory

\* C20: a tick places buy orders only when its regime check allows trading
\* and trading is not suspended when they are placed; a tick whose regime check
\* disallows trading, and a tick that liquidates, place none
C20_BuysOnlyWhenAllowed ==
  /\ trade.buys # {} => btc_above_ma /\ ~is_trading_suspended
  /\ ~btc_above_ma => trade.buys = {}
  /\ emitted = "LiquidateAll" => trade.buys = {}
  /\ LiquidationSells(trade) # {} => trade.buys = {}
\* a tick that began suspended, resumed and bought, and a tick that liquidated
C20_Witness ==
  /\ pc = "done" /\ was_suspended /\ btc_above_ma
  /\ \E o \in trade.buys : o.ok
C20_WitnessLiquidation ==
  /\ pc = "done" /\ emitted = "LiquidateAll"
  /\ \E o \in LiquidationSells(trade) : o.ok

\* C21: in one execution of execute_trades no ticker gets both a sell order
\* and a buy order: a holding sold in the sell phase, a target that
\* should_keep_coin refused included, is not bought in the buy phase
C21_NoSellAndBuy ==
  trade.executed =>
    \A s \in RebalanceSells(trade), b \in trade.buys : s.ticker # b.ticker
\* the part of C21 for holdings sold because they are no target
C21_SoldNonTargetNotBought ==
  trade.executed =>
    \A s \in RebalanceSells(trade), b \in trade.buys :
      s.ticker \notin Range(trade.target_coins) => s.ticker # b.ticker

====
